---- MODULE Spec2Model ----
(***************************************************************************)
(* A model of src/Algorithms/PPO.py: the PPO controller (class PPO), its   *)
(* trajectory buffer (class PPOBuffer) and the two ActorCritic parameter   *)
(* sets it owns (AC, the live model, and AC_saved, the behavior model).    *)
(*                                                                         *)
(* Abstractions.                                                           *)
(*  - A parameter set (a state_dict) is a version number: 0 is the random  *)
(*    initialisation, k > 0 the parameters produced by the k-th            *)
(*    optimizer step, PretrainedParams a checkpoint written by an earlier  *)
(*    run, NaNParams a parameter set holding NaN.                          *)
(*  - A recorded log-probability is the version of AC_saved it was         *)
(*    computed from (ActorCritic.action is a function of the parameters).  *)
(*  - Returns are fixed-point numbers with denominator Scale, so that the  *)
(*    discount 0.99 is exact.  The normalisation of line 168 produces      *)
(*    reals; the model keeps the raw returns of line 167 and the one       *)
(*    effect of line 168 that reaches the parameters: a batch of a single  *)
(*    return has an undefined (NaN) standard deviation.                    *)
(*  - Tensor shapes decide whether train() raises.  States are passed as   *)
(*    (1, d_state) rows with d_state >= 2 (Softmax(dim=1), line 24, needs  *)
(*    a 2-D input), so the squeeze of line 170 yields an (n, d_state)      *)
(*    batch for n >= 2 and a 1-D tensor for n = 1.                         *)
(*  - train() is a sequence of steps (pc): the call up to the loop head,   *)
(*    one step per epoch, and the tail (lines 200-204).  The controller    *)
(*    is single threaded: while pc = "epochs" no other call is enabled.    *)
(*  - hist is a history variable of the driver: whether the last sampled   *)
(*    action still awaits its observe, the state that action was sampled   *)
(*    for, and, for every recorded reward, the state whose action it is    *)
(*    the outcome of (0: no action was sampled before it).                 *)
(***************************************************************************)
EXTENDS Integers, Sequences, FiniteSets, TLC

VARIABLES training, num_epochs, validate_args,
          buffer, AC, AC_saved, optim, epoch_count,
          files, writer, pc, frame, last, hist, calls

vars == <<training, num_epochs, validate_args, buffer, AC, AC_saved, optim,
          epoch_count, files, writer, pc, frame, last, hist, calls>>

config == <<training, num_epochs, validate_args>>

(* ---------------------------- bounds ---------------------------------- *)
\* calls the driver makes over the controller's lifetime
MaxCalls == 6
\* most outcomes (reward, terminal) the buffer holds
MaxOutcomes == 3

(* ------------------------ program constants --------------------------- *)
\* action_dimension of the constructor
d_action == 2
\* discount = DiscountNum / DiscountDen = 0.99
DiscountNum == 99
DiscountDen == 100

NumEpochsChoices == {1, 2}
RewardInputs == {0, 1}
Handles == {"ckpt"}
\* the environment state the driver passes is identified by its number
StateInput == hist.last_state + 1

NaNParams == -1
PretrainedParams == -2
NoFile == -3

RECURSIVE Pow(_, _)
Pow(b, e) == IF e = 0 THEN 1 ELSE b * Pow(b, e - 1)

\* denominator of the fixed-point returns
Scale == Pow(DiscountDen, MaxOutcomes)

(* ----------------------------- PPOBuffer ------------------------------ *)
PPOBuffer_init ==
    [actions |-> <<>>, states |-> <<>>, logprobs |-> <<>>,
     rewards |-> <<>>, is_terminals |-> <<>>]

\* reset() that clears the step sequences only
reset_keeps_outcomes(b) ==
    [b EXCEPT !.actions = <<>>, !.states = <<>>, !.logprobs = <<>>]

reset(b) ==
    [actions |-> <<>>, states |-> <<>>, logprobs |-> <<>>,
     rewards |-> <<>>, is_terminals |-> <<>>]

\* isEmpty() that looks at the recorded outcomes
isEmpty_outcomes(b) == Len(b.rewards) <= 0

isEmpty(b) == Len(b.actions) <= 0

(* --------------------------- pure helpers ----------------------------- *)
Reversed(l) == [i \in 1..Len(l) |-> l[Len(l) + 1 - i]]

\* Python's l[-n:]
LastSlice(l, n) ==
    IF n = 0 \/ n >= Len(l) THEN l
    ELSE SubSeq(l, Len(l) - n + 1, Len(l))

\* the backward walk without the reset at a terminal step
DiscountStep_no_reset(reward, is_terminal, reward_disc) ==
    reward * Scale + (reward_disc \div DiscountDen) * DiscountNum

\* line 161-163: one iteration of the backward walk
DiscountStep(reward, is_terminal, reward_disc) ==
    LET g == IF is_terminal THEN 0 ELSE reward_disc
    IN  reward * Scale + (g \div DiscountDen) * DiscountNum

\* lines 157-164: the list `rewards`, latest outcome first
RECURSIVE DiscountLoop(_, _, _, _, _)
DiscountLoop(rs, ts, i, reward_disc, acc) ==
    IF i = 0 THEN acc
    ELSE LET g == DiscountStep(rs[i], ts[i], reward_disc)
         IN  DiscountLoop(rs, ts, i - 1, g, Append(acc, g))

DiscountedRewards(b) ==
    DiscountLoop(b.rewards, b.is_terminals, Len(b.rewards), 0, <<>>)

\* the truncated list left in latest-first order
BatchReturns_not_reversed(b) == LastSlice(DiscountedRewards(b), Len(b.states))

\* lines 166-167: truncate, then back to chronological order
BatchReturns(b) == Reversed(LastSlice(DiscountedRewards(b), Len(b.states)))

\* line 168: the standard deviation of a single return is NaN
NormalizedIsNaN(returns) == Len(returns) = 1

NoFrame ==
    [rewards_list |-> <<>>, rewards |-> <<>>, rewards_nan |-> FALSE,
     old_states |-> <<>>, old_actions |-> <<>>, old_logprobs |-> <<>>, i |-> 0]

\* lines 157-174: the locals of train() at the loop head
TrainFrame(b) ==
    [rewards_list |-> DiscountedRewards(b),
     rewards      |-> BatchReturns(b),
     rewards_nan  |-> NormalizedIsNaN(BatchReturns(b)),
     old_states   |-> b.states,
     old_actions  |-> b.actions,
     old_logprobs |-> b.logprobs,
     i            |-> 0]

\* line 177: evaluate() raises on a 1-D batch (Softmax(dim=1)), and, when the
\* distribution validates its arguments, on probabilities that are NaN
EvaluateRaises(f, params, validate) ==
    \/ Len(f.old_states) = 1
    \/ (params = NaNParams /\ validate)

\* line 183: rewards - state_values broadcasts only equal or singleton sizes
AdvantageRaises(f) ==
    /\ Len(f.rewards) # Len(f.old_states)
    /\ Len(f.rewards) # 1

\* line 192-194: the optimizer state after one step
OptimStep(o, f, params) ==
    [step |-> o.step + 1,
     nan  |-> o.nan \/ f.rewards_nan \/ params = NaNParams]

\* line 194: the live parameters after one step
SteppedParams(o, f, params) ==
    IF OptimStep(o, f, params).nan THEN NaNParams ELSE o.step + 1

Result(op, outcome, line, val) ==
    [op |-> op, outcome |-> outcome, line |-> line, val |-> val]

(* ------------------------------- Init --------------------------------- *)
Init ==
    /\ training \in BOOLEAN
    /\ num_epochs \in NumEpochsChoices
    /\ validate_args \in BOOLEAN
    /\ buffer = PPOBuffer_init
    /\ AC = 0
    /\ AC_saved = 0
    /\ optim = [step |-> 0, nan |-> FALSE]
    /\ epoch_count = 0
    /\ files \in [Handles -> {NoFile, PretrainedParams}]
    /\ writer = <<>>
    /\ pc = "acting"
    /\ frame = NoFrame
    /\ last = Result("init", "returned", 121, -1)
    /\ hist = [pending |-> FALSE, last_state |-> 0, reward_of |-> <<>>]
    /\ calls = 0

(* ------------------------------ actions ------------------------------- *)
\* action() that does not record the log-probability
action_drops_logprob(state) ==
    /\ pc = "acting"
    /\ calls < MaxCalls
    /\ calls' = calls + 1
    /\ IF AC_saved = NaNParams
       THEN /\ last' = Result("action", "raised", 130, -1)
            /\ UNCHANGED <<buffer, hist>>
       ELSE \E a \in 0..(d_action - 1) :
            /\ buffer' = IF training
                         THEN [buffer EXCEPT !.states = Append(@, state),
                                             !.actions = Append(@, a)]
                         ELSE buffer
            /\ last' = Result("action", "returned", 136, a)
            /\ hist' = [hist EXCEPT !.pending = TRUE, !.last_state = state]
    /\ UNCHANGED <<config, AC, AC_saved, optim, epoch_count, files, writer, pc, frame>>

\* PPO.action, lines 123-136
action(state) ==
    /\ pc = "acting"
    /\ calls < MaxCalls
    /\ calls' = calls + 1
    /\ IF AC_saved = NaNParams
       THEN /\ last' = Result("action", "raised", 130, -1)
            /\ UNCHANGED <<buffer, hist>>
       ELSE \E a \in 0..(d_action - 1) :
            /\ buffer' = IF training
                         THEN [buffer EXCEPT !.states = Append(@, state),
                                             !.actions = Append(@, a),
                                             !.logprobs = Append(@, AC_saved)]
                         ELSE buffer
            /\ last' = Result("action", "returned", 136, a)
            /\ hist' = [hist EXCEPT !.pending = TRUE, !.last_state = state]
    /\ UNCHANGED <<config, AC, AC_saved, optim, epoch_count, files, writer, pc, frame>>

\* update() without the training-mode guard
update_any_mode(reward, is_terminal) ==
    /\ pc = "acting"
    /\ calls < MaxCalls
    /\ calls' = calls + 1
    /\ Len(buffer.rewards) < MaxOutcomes
    /\ buffer' = [buffer EXCEPT !.rewards = Append(@, reward),
                                !.is_terminals = Append(@, is_terminal)]
    /\ last' = Result("update", "returned", 212, -1)
    /\ hist' = [hist EXCEPT !.pending = FALSE,
                             !.reward_of = Append(@, hist.last_state)]
    /\ UNCHANGED <<config, AC, AC_saved, optim, epoch_count, files, writer, pc, frame>>

\* PPO.update, lines 206-212
update(reward, is_terminal) ==
    /\ pc = "acting"
    /\ calls < MaxCalls
    /\ calls' = calls + 1
    /\ Len(buffer.rewards) < MaxOutcomes
    /\ IF ~training
       THEN /\ last' = Result("update", "returned", 210, -1)
            /\ UNCHANGED buffer
            /\ hist' = [hist EXCEPT !.pending = FALSE]
       ELSE /\ buffer' = [buffer EXCEPT !.rewards = Append(@, reward),
                                        !.is_terminals = Append(@, is_terminal)]
            /\ last' = Result("update", "returned", 212, -1)
            /\ hist' = [hist EXCEPT !.pending = FALSE,
                                     !.reward_of = Append(@, hist.last_state)]
    /\ UNCHANGED <<config, AC, AC_saved, optim, epoch_count, files, writer, pc, frame>>

\* save() that writes the live parameters
save_live(filename) ==
    /\ pc = "acting"
    /\ calls < MaxCalls
    /\ calls' = calls + 1
    /\ files' = [files EXCEPT ![filename] = AC]
    /\ last' = Result("save", "returned", 142, -1)
    /\ UNCHANGED <<config, buffer, AC, AC_saved, optim, epoch_count, writer, pc, frame, hist>>

\* PPO.save, lines 138-142
save(filename) ==
    /\ pc = "acting"
    /\ calls < MaxCalls
    /\ calls' = calls + 1
    /\ files' = [files EXCEPT ![filename] = AC_saved]
    /\ last' = Result("save", "returned", 142, -1)
    /\ UNCHANGED <<config, buffer, AC, AC_saved, optim, epoch_count, writer, pc, frame, hist>>

\* PPO.load, lines 144-149
load(filename) ==
    /\ pc = "acting"
    /\ calls < MaxCalls
    /\ calls' = calls + 1
    /\ IF files[filename] = NoFile
       THEN /\ last' = Result("load", "raised", 148, -1)
            /\ UNCHANGED <<AC, AC_saved>>
       ELSE /\ AC' = files[filename]
            /\ AC_saved' = files[filename]
            /\ last' = Result("load", "returned", 149, -1)
    /\ UNCHANGED <<config, buffer, optim, epoch_count, files, writer, pc, frame, hist>>

\* PPO.train, lines 151-174: the guards and the batch
train_call ==
    /\ pc = "acting"
    /\ calls < MaxCalls
    /\ calls' = calls + 1
    /\ IF ~training
       THEN /\ last' = Result("train", "returned", 155, -1)
            /\ UNCHANGED <<pc, frame>>
       ELSE IF isEmpty(buffer)
       THEN /\ last' = Result("train", "returned", 156, -1)
            /\ UNCHANGED <<pc, frame>>
       ELSE /\ frame' = TrainFrame(buffer)
            /\ pc' = "epochs"
            /\ last' = Result("train", "running", 175, -1)
    /\ UNCHANGED <<config, buffer, AC, AC_saved, optim, epoch_count, files, writer, hist>>

\* an epoch that also copies the stepped parameters into the behavior model
train_epoch_syncs_behavior ==
    /\ pc = "epochs"
    /\ UNCHANGED calls
    /\ frame.i < num_epochs
    /\ IF EvaluateRaises(frame, AC, validate_args)
       THEN /\ last' = Result("train", "raised", 177, -1)
            /\ pc' = "acting"
            /\ frame' = NoFrame
            /\ UNCHANGED <<AC, AC_saved, optim, writer, epoch_count>>
       ELSE IF AdvantageRaises(frame)
       THEN /\ last' = Result("train", "raised", 183, -1)
            /\ pc' = "acting"
            /\ frame' = NoFrame
            /\ UNCHANGED <<AC, AC_saved, optim, writer, epoch_count>>
       ELSE /\ AC' = SteppedParams(optim, frame, AC)
            /\ AC_saved' = SteppedParams(optim, frame, AC)
            /\ optim' = OptimStep(optim, frame, AC)
            /\ writer' = Append(writer, epoch_count)
            /\ epoch_count' = epoch_count + 1
            /\ frame' = [frame EXCEPT !.i = @ + 1]
            /\ UNCHANGED <<pc, last>>
    /\ UNCHANGED <<config, buffer, files, hist>>

\* an epoch that clears the buffer when it raises
train_epoch_clears_on_error ==
    /\ pc = "epochs"
    /\ UNCHANGED calls
    /\ frame.i < num_epochs
    /\ IF EvaluateRaises(frame, AC, validate_args)
       THEN /\ last' = Result("train", "raised", 177, -1)
            /\ pc' = "acting"
            /\ frame' = NoFrame
            /\ buffer' = reset(buffer)
            /\ UNCHANGED <<AC, optim, writer, epoch_count>>
       ELSE IF AdvantageRaises(frame)
       THEN /\ last' = Result("train", "raised", 183, -1)
            /\ pc' = "acting"
            /\ frame' = NoFrame
            /\ buffer' = reset(buffer)
            /\ UNCHANGED <<AC, optim, writer, epoch_count>>
       ELSE /\ AC' = SteppedParams(optim, frame, AC)
            /\ optim' = OptimStep(optim, frame, AC)
            /\ writer' = Append(writer, epoch_count)
            /\ epoch_count' = epoch_count + 1
            /\ frame' = [frame EXCEPT !.i = @ + 1]
            /\ UNCHANGED <<pc, last, buffer>>
    /\ UNCHANGED <<config, AC_saved, files, hist>>

\* PPO.train, lines 175-199: one epoch
train_epoch ==
    /\ pc = "epochs"
    /\ UNCHANGED calls
    /\ frame.i < num_epochs
    /\ IF EvaluateRaises(frame, AC, validate_args)
       THEN /\ last' = Result("train", "raised", 177, -1)
            /\ pc' = "acting"
            /\ frame' = NoFrame
            /\ UNCHANGED <<AC, optim, writer, epoch_count>>
       ELSE IF AdvantageRaises(frame)
       THEN /\ last' = Result("train", "raised", 183, -1)
            /\ pc' = "acting"
            /\ frame' = NoFrame
            /\ UNCHANGED <<AC, optim, writer, epoch_count>>
       ELSE /\ AC' = SteppedParams(optim, frame, AC)
            /\ optim' = OptimStep(optim, frame, AC)
            /\ writer' = Append(writer, epoch_count)
            /\ epoch_count' = epoch_count + 1
            /\ frame' = [frame EXCEPT !.i = @ + 1]
            /\ UNCHANGED <<pc, last>>
    /\ UNCHANGED <<config, buffer, AC_saved, files, hist>>

\* PPO.train, lines 200-204: copy the live parameters, clear the buffer
train_finish ==
    /\ pc = "epochs"
    /\ UNCHANGED calls
    /\ frame.i = num_epochs
    /\ AC_saved' = AC
    /\ buffer' = reset(buffer)
    /\ hist' = [hist EXCEPT !.reward_of = <<>>]
    /\ pc' = "acting"
    /\ frame' = NoFrame
    /\ last' = Result("train", "returned", 204, -1)
    /\ UNCHANGED <<config, AC, optim, epoch_count, files, writer>>

Next ==
    \/ \E s \in {StateInput} : action(s)
    \/ \E r \in RewardInputs, t \in BOOLEAN : update(r, t)
    \/ \E h \in Handles : save(h)
    \/ \E h \in Handles : load(h)
    \/ train_call
    \/ train_epoch
    \/ train_finish

Spec == Init /\ [][Next]_vars

(* ---------------------- the disciplined driver ------------------------ *)
\* spec.md section 6: one observe per act, after it; update() at any point
driver_act(state) == ~hist.pending /\ action(state)

driver_observe(reward, is_terminal) == hist.pending /\ update(reward, is_terminal)

NextDriver ==
    \/ \E s \in {StateInput} : driver_act(s)
    \/ \E r \in RewardInputs, t \in BOOLEAN : driver_observe(r, t)
    \/ \E h \in Handles : save(h)
    \/ \E h \in Handles : load(h)
    \/ train_call
    \/ train_epoch
    \/ train_finish

SpecDriver == Init /\ [][NextDriver]_vars

(* ------------------------- shared predicates -------------------------- *)
\* this step is the driver entering the named operation
Calls(op) == calls' = calls + 1 /\ last'.op = op

Returned(op, line) == last = Result(op, "returned", line, -1)

AllEmpty(b) ==
    /\ b.states = <<>>
    /\ b.actions = <<>>
    /\ b.logprobs = <<>>
    /\ b.rewards = <<>>
    /\ b.is_terminals = <<>>

(* -------------------------------- C1 ---------------------------------- *)
\* C1: when train() has run its epochs and returned (line 204), all five
\* buffer sequences are empty, isEmpty() is true and AC_saved equals AC.
C1_AfterUpdate ==
    Returned("train", 204) =>
        /\ AllEmpty(buffer)
        /\ isEmpty(buffer)
        /\ AC_saved = AC

\* an update of a two-step batch has stepped the live model and returned
C1_Witness ==
    /\ Returned("train", 204)
    /\ training
    /\ optim.step = num_epochs
    /\ AC = optim.step

(* -------------------------------- C2 ---------------------------------- *)
\* C2: a train() call made in training mode while no action is recorded
\* returns at once: both models, the step counter, the buffer and the
\* metrics are unchanged and the buffer is still empty.
C2_EmptyUpdateNoOp ==
    [][(Calls("train") /\ training /\ Len(buffer.actions) = 0) =>
        /\ pc' = "acting"
        /\ last'.outcome = "returned"
        /\ UNCHANGED <<AC, AC_saved, optim, epoch_count, buffer, writer>>
        /\ Len(buffer'.actions) = 0]_vars

\* train() returned at the isEmpty guard although outcomes were recorded
C2_Witness ==
    /\ Returned("train", 156)
    /\ training
    /\ Len(buffer.rewards) > 0

(* -------------------------------- C3 ---------------------------------- *)
\* C3: the raw discounted returns train() computes from n >= 1 recorded
\* outcomes satisfy, in chronological order, return[n] = reward[n] and, for
\* i < n, return[i] = reward[i] if terminal[i], else reward[i] +
\* discount * return[i+1]; rewards [1,1,1] with terminals [F,F,T] give
\* [2.9701, 1.99, 1.0].
C3_DiscountedReturns ==
    pc = "epochs" =>
        LET n   == Len(buffer.rewards)
            r   == buffer.rewards
            t   == buffer.is_terminals
            ret == Reversed(frame.rewards_list)
        IN  /\ Len(ret) = n
            /\ n >= 1 => ret[n] = r[n] * Scale
            /\ \A i \in 1..(n - 1) :
                 /\ ret[i + 1] % DiscountDen = 0
                 /\ ret[i] = IF t[i] THEN r[i] * Scale
                             ELSE r[i] * Scale + (ret[i + 1] \div DiscountDen) * DiscountNum
            /\ (r = <<1, 1, 1>> /\ t = <<FALSE, FALSE, TRUE>>) =>
                 ret = <<29701 * (Scale \div 10000), 199 * (Scale \div 100), Scale>>

\* train() is in its epochs on the trajectory of the example
C3_Witness ==
    /\ pc = "epochs"
    /\ buffer.rewards = <<1, 1, 1>>
    /\ buffer.is_terminals = <<FALSE, FALSE, TRUE>>
    /\ Len(frame.rewards_list) = 3

(* -------------------------------- C4 ---------------------------------- *)
\* C4: a train() call made in training mode with fewer recorded outcomes
\* than recorded steps completes without raising.
C4_NoFailure ==
    (/\ training
     /\ last.op = "train"
     /\ Len(buffer.rewards) < Len(buffer.states)) => last.outcome # "raised"

(* -------------------------------- C5 ---------------------------------- *)
\* C5: in every reachable state states, actions and logprobs have one
\* length, and rewards and is_terminals have one length.
C5_ParallelLengths ==
    /\ Len(buffer.states) = Len(buffer.actions)
    /\ Len(buffer.actions) = Len(buffer.logprobs)
    /\ Len(buffer.rewards) = Len(buffer.is_terminals)

\* steps and outcomes are recorded, in different numbers
C5_Witness ==
    /\ Len(buffer.logprobs) = 2
    /\ Len(buffer.is_terminals) = 3

(* -------------------------------- C6 ---------------------------------- *)
\* C6: with training mode disabled, action() returns an action index in
\* [0, d_action) and leaves the buffer unchanged, and action(), update()
\* and train() leave the buffer, both models, the optimizer, the step
\* counter and the metrics unchanged.
C6_EvalModeFrame ==
    [][~training =>
        /\ (Calls("action") \/ Calls("update") \/ Calls("train")) =>
             /\ UNCHANGED <<buffer, AC, AC_saved, optim, epoch_count, writer>>
             /\ pc' = "acting"
             /\ last'.outcome = "returned"
        /\ Calls("action") => last'.val \in 0..(d_action - 1)]_vars

\* an action was sampled from loaded parameters with training disabled
C6_Witness ==
    /\ ~training
    /\ last.op = "action"
    /\ last.val = 1
    /\ AC_saved = PretrainedParams
    /\ AllEmpty(buffer)

(* -------------------------------- C7 ---------------------------------- *)
\* C7: an epoch steps the live model only, leaving AC_saved, the buffer and
\* the batch of train() as they are; AC_saved changes only by replacement
\* with the live parameters after the last epoch, or by load().
C7_BehaviorModelFixed ==
    [][/\ (pc = "epochs" /\ pc' = "epochs") =>
            /\ UNCHANGED <<AC_saved, buffer>>
            /\ frame' = [frame EXCEPT !.i = frame.i + 1]
            /\ frame'.i <= num_epochs
       /\ AC_saved' # AC_saved =>
            \/ /\ pc = "epochs"
               /\ frame.i = num_epochs
               /\ last'.outcome = "returned"
               /\ AC_saved' = AC
               /\ AC' = AC
            \/ /\ Calls("load")
               /\ \E h \in Handles : files[h] # NoFile /\ AC_saved' = files[h]]_vars

\* between two epochs the live model has moved away from the behavior model
C7_Witness ==
    /\ pc = "epochs"
    /\ num_epochs = 2
    /\ frame.i = 1
    /\ AC = 1
    /\ AC_saved = 0

(* -------------------------------- C8 ---------------------------------- *)
\* C8: in every update batch there are as many returns as recorded states,
\* and the return at index i is the discounted return of the outcome
\* observed for the action recorded at index i.
C8_BatchAligned ==
    pc = "epochs" =>
        /\ Len(frame.rewards) = Len(frame.old_states)
        /\ \A i \in 1..Len(frame.old_states) :
             /\ i <= Len(hist.reward_of)
             /\ hist.reward_of[i] = frame.old_states[i]

(* -------------------------------- C9 ---------------------------------- *)
\* C9: save() writes AC_saved to the handle and changes nothing else;
\* load() replaces AC and AC_saved by the parameters under the handle and
\* leaves the buffer and the step counter unchanged; a load() right after a
\* save() (Handles has one element) leaves AC_saved as it was and makes AC
\* equal to it.
C9_SaveLoad ==
    [][/\ Calls("save") =>
            /\ \E h \in Handles : files' = [files EXCEPT ![h] = AC_saved]
            /\ UNCHANGED <<buffer, AC, AC_saved, optim, epoch_count, writer, pc>>
       /\ (Calls("load") /\ last'.outcome = "returned") =>
            /\ \E h \in Handles :
                 /\ files[h] # NoFile
                 /\ AC' = files[h]
                 /\ AC_saved' = files[h]
            /\ UNCHANGED <<buffer, epoch_count, files>>
       /\ (Calls("load") /\ last.op = "save") =>
            /\ last'.outcome = "returned"
            /\ AC_saved' = AC_saved
            /\ AC' = AC_saved]_vars

\* the behavior parameters were saved while the live model held other
\* parameters, and a load has brought the live model back to them
C9_Witness ==
    /\ Returned("load", 149)
    /\ optim.step = 1
    /\ AC = 0
    /\ AC_saved = 0
    /\ files["ckpt"] = 0

(* -------------------------------- C10 --------------------------------- *)
\* C10: under the disciplined driver, in training mode, the outcomes lag
\* the steps by at most the one unobserved step and never outnumber them.
C10_OutcomesLag ==
    training =>
        /\ Len(buffer.states) - Len(buffer.rewards) >= 0
        /\ Len(buffer.states) - Len(buffer.rewards) <= 1

(* -------------------------------- C11 --------------------------------- *)
\* C11: when train() starts its epochs, every log-probability of the batch
\* was captured from the parameters that are the behavior parameters
\* (AC_saved) at that moment.
C11_FaithfulSnapshot ==
    (pc = "epochs" /\ frame.i = 0) =>
        \A i \in 1..Len(frame.old_logprobs) : frame.old_logprobs[i] = AC_saved

(* -------------------------------- C12 --------------------------------- *)
\* The clipped surrogate of lines 181-187 for one sample of the batch.
\* Ratios and surrogates are in hundredths, advantages are integers.
RatioInputs == {5 * k : k \in 10..30}
AdvantageInputs == -3..3
\* eps_clip of the constructor, in hundredths (0.2)
eps_clip == 20

\* torch.clamp
Clamp(x, lo, hi) == IF x < lo THEN lo ELSE IF x > hi THEN hi ELSE x

\* torch.min of two scalars
Min(a, b) == IF a <= b THEN a ELSE b

\* line 184
Surr1(ratio, advantage) == ratio * advantage

\* line 185
Surr2(ratio, advantage) == Clamp(ratio, 100 - eps_clip, 100 + eps_clip) * advantage

\* the policy term that takes the larger surrogate
PolicyLoss_max(ratio, advantage) ==
    -(IF Surr1(ratio, advantage) >= Surr2(ratio, advantage)
      THEN Surr1(ratio, advantage) ELSE Surr2(ratio, advantage))

\* line 187, first term: -torch.min(surr1, surr2)
PolicyLoss(ratio, advantage) == -Min(Surr1(ratio, advantage), Surr2(ratio, advantage))

\* the locals of one epoch for one sample, before lines 184-187 have run
SampleFrame(b, ratio, advantage) ==
    [rewards_list |-> DiscountedRewards(b),
     rewards      |-> BatchReturns(b),
     rewards_nan  |-> NormalizedIsNaN(BatchReturns(b)),
     old_states   |-> b.states,
     old_actions  |-> b.actions,
     old_logprobs |-> b.logprobs,
     i            |-> 0,
     ratio        |-> ratio,
     advantage    |-> advantage,
     computed     |-> FALSE,
     surr1        |-> 0,
     surr2        |-> 0,
     loss         |-> 0]

\* a controller inside the first epoch of an update of two observed steps
InitLoss ==
    /\ training = TRUE
    /\ num_epochs = 1
    /\ validate_args = TRUE
    /\ buffer = [actions |-> <<0, 1>>, states |-> <<1, 2>>, logprobs |-> <<0, 0>>,
                 rewards |-> <<1, 0>>, is_terminals |-> <<FALSE, TRUE>>]
    /\ AC = 0
    /\ AC_saved = 0
    /\ optim = [step |-> 0, nan |-> FALSE]
    /\ epoch_count = 0
    /\ files = [h \in Handles |-> NoFile]
    /\ writer = <<>>
    /\ pc = "epochs"
    /\ \E ratio \in RatioInputs, advantage \in AdvantageInputs :
           frame = SampleFrame(buffer, ratio, advantage)
    /\ last = Result("train", "running", 175, -1)
    /\ hist = [pending |-> FALSE, last_state |-> 2, reward_of |-> <<1, 2>>]
    /\ calls = 5

\* lines 184-187 for the sample
surrogate ==
    /\ pc = "epochs"
    /\ ~frame.computed
    /\ frame' = [frame EXCEPT !.computed = TRUE,
                              !.surr1 = Surr1(frame.ratio, frame.advantage),
                              !.surr2 = Surr2(frame.ratio, frame.advantage),
                              !.loss = PolicyLoss(frame.ratio, frame.advantage)]
    /\ UNCHANGED <<config, buffer, AC, AC_saved, optim, epoch_count, files,
                   writer, pc, last, hist, calls>>

NextLoss == surrogate

SpecLoss == InitLoss /\ [][NextLoss]_vars

\* C12: the policy term of the loss is -min(ratio * advantage,
\* clip(ratio, 1 - eps, 1 + eps) * advantage): for ratio > 1 + eps and
\* advantage > 0 the clipped surrogate is strictly smaller and the term is
\* -(1 + eps) * advantage; for ratio < 1 - eps and advantage < 0 it is
\* -(1 - eps) * advantage; for ratio = 1 it is -advantage.
C12_ClippedLoss ==
    frame.computed =>
        LET r == frame.ratio
            a == frame.advantage
        IN  /\ frame.loss = -Min(r * a, Clamp(r, 100 - eps_clip, 100 + eps_clip) * a)
            /\ (r > 100 + eps_clip /\ a > 0) =>
                 /\ frame.surr2 < frame.surr1
                 /\ frame.loss = -((100 + eps_clip) * a)
            /\ (r < 100 - eps_clip /\ a < 0) =>
                 frame.loss = -((100 - eps_clip) * a)
            /\ r = 100 => frame.loss = -(100 * a)

\* the loss was computed for a ratio above the clip range and a positive advantage
C12_Witness ==
    /\ frame.computed
    /\ frame.ratio = 150
    /\ frame.advantage = 2
    /\ frame.loss = -240

(* -------------------------------- C13 --------------------------------- *)
\* C13: when more outcomes than steps are recorded, the returns kept for
\* the batch are those of the len(states) most recently observed outcomes,
\* in chronological order.
C13_KeepsNewest ==
    (pc = "epochs" /\ Len(buffer.rewards) > Len(buffer.states)) =>
        LET m == Len(buffer.rewards)
            n == Len(buffer.states)
        IN  frame.rewards = SubSeq(Reversed(frame.rewards_list), m - n + 1, m)

(* -------------------------------- C14 --------------------------------- *)
\* old is the beginning of new, and new has k more entries
Extends(new, old, k) ==
    /\ Len(new) = Len(old) + k
    /\ SubSeq(new, 1, Len(old)) = old

\* C14: a step leaves the buffer as it is, or is action() appending one
\* entry to states, actions and logprobs, or update() appending one entry
\* to rewards and is_terminals, or the reset of all five sequences at the
\* end of a train() that ran its num_epochs epochs; a train() that returns
\* at a guard or raises clears nothing.
C14_GrowOnly ==
    [][/\ \/ buffer' = buffer
          \/ /\ Calls("action")
             /\ Extends(buffer'.states, buffer.states, 1)
             /\ Extends(buffer'.actions, buffer.actions, 1)
             /\ Extends(buffer'.logprobs, buffer.logprobs, 1)
             /\ buffer'.rewards = buffer.rewards
             /\ buffer'.is_terminals = buffer.is_terminals
          \/ /\ Calls("update")
             /\ Extends(buffer'.rewards, buffer.rewards, 1)
             /\ Extends(buffer'.is_terminals, buffer.is_terminals, 1)
             /\ buffer'.states = buffer.states
             /\ buffer'.actions = buffer.actions
             /\ buffer'.logprobs = buffer.logprobs
          \/ /\ pc = "epochs"
             /\ frame.i = num_epochs
             /\ last' = Result("train", "returned", 204, -1)
             /\ AllEmpty(buffer')
       /\ (training /\ Calls("action") /\ last'.outcome = "returned") =>
             buffer' # buffer
       /\ (training /\ Calls("update")) => buffer' # buffer
       /\ (last'.op = "train" /\ last'.line # 204) => buffer' = buffer]_vars

\* a train() that raised on three steps without outcomes has cleared nothing
C14_Witness ==
    /\ last = Result("train", "raised", 183, -1)
    /\ Len(buffer.states) = 3
    /\ Len(buffer.rewards) = 0

(* -------------------------------- C15 --------------------------------- *)
\* C15: epoch_count never decreases; a train() that does not return at a
\* guard ends only after num_epochs epochs; every epoch writes its metrics
\* at the current epoch_count and advances it by one, so no two epochs
\* write at one value; a train() that returns at a guard leaves it as it is.
C15_StepCounter ==
    [][/\ epoch_count' >= epoch_count
       /\ (pc = "epochs" /\ pc' = "acting") => frame.i = num_epochs
       /\ writer' # writer =>
            /\ writer' = Append(writer, epoch_count)
            /\ epoch_count' = epoch_count + 1
            /\ \A k \in 1..Len(writer) : writer[k] # epoch_count
       /\ (Calls("train") /\ pc' = "acting") =>
            /\ epoch_count' = epoch_count
            /\ writer' = writer]_vars

(* -------------------------------- C16 --------------------------------- *)
\* C16: whenever no train() is running the live parameters equal the
\* behavior parameters, and so they do when the first epoch starts.
C16_LiveEqualsBehavior ==
    (pc = "acting" \/ frame.i = 0) => AC = AC_saved

(* -------------------------------- C17 --------------------------------- *)
\* the driver that alternates act and observe, starting with act, and
\* calls update() only when every action has been observed
alternate_train == ~hist.pending /\ train_call

NextAlternate ==
    \/ \E s \in {StateInput} : driver_act(s)
    \/ \E r \in RewardInputs, t \in BOOLEAN : driver_observe(r, t)
    \/ \E h \in Handles : save(h)
    \/ \E h \in Handles : load(h)
    \/ alternate_train
    \/ train_epoch
    \/ train_finish

SpecAlternate == Init /\ [][NextAlternate]_vars

\* the discounted return of outcome i, from the definition: its reward, and
\* unless it ends an episode or the record, the discounted return that follows
RECURSIVE ReturnOf(_, _, _)
ReturnOf(rs, ts, i) ==
    IF i = Len(rs) \/ ts[i] THEN rs[i] * Scale
    ELSE rs[i] * Scale + (ReturnOf(rs, ts, i + 1) \div DiscountDen) * DiscountNum

\* C17: under the alternating driver, at every train() that reaches its
\* epochs there are as many outcomes as steps, the truncation of line 166
\* removes nothing, and the return at index i is the discounted return of
\* the outcome observed for the action recorded at index i.
C17_AlignedBatch ==
    pc = "epochs" =>
        /\ Len(buffer.rewards) = Len(buffer.states)
        /\ Len(frame.rewards) = Len(frame.rewards_list)
        /\ Len(frame.rewards) = Len(frame.old_states)
        /\ \A i \in 1..Len(frame.old_states) :
             /\ hist.reward_of[i] = frame.old_states[i]
             /\ frame.rewards[i] = ReturnOf(buffer.rewards, buffer.is_terminals, i)

\* train() is in its epochs on two observed steps, the first one terminal
C17_Witness ==
    /\ pc = "epochs"
    /\ frame.old_states = <<1, 2>>
    /\ buffer.rewards = <<1, 1>>
    /\ buffer.is_terminals = <<TRUE, FALSE>>
    /\ frame.i = 1

====
